---- MODULE Spec2Model ----
(***************************************************************************)
(* NanoPool (src/contracts/NanoPool.sol): the pool escrow as a state       *)
(* machine.  One step is one call into the escrow (a transaction, or a     *)
(* call nested in the outbound transfer of disburseFunds / claimRefund),   *)
(* the return of such a transfer, or the passing of block time.            *)
(*                                                                         *)
(* The require messages of the contract are named as the specification     *)
(* names them:                                                             *)
(*   "Pool does not exist"                          PoolNotFound           *)
(*   "Pool deadline has passed"                     DeadlinePassed         *)
(*   "Pool goal already achieved"                   GoalAlreadyAchieved    *)
(*   "Contribution amount must be greater than zero" ZeroContribution      *)
(*   "Only pool initiator or contract owner ..."    Unauthorized           *)
(*   "Pool goal not achieved"                       GoalNotAchieved        *)
(*   "Funds already disbursed"                      AlreadyDisbursed       *)
(*   "Pool deadline not yet passed"                 DeadlineNotReached     *)
(*   "Pool goal was achieved, no refunds available" GoalWasAchieved        *)
(*   "No contribution found"                        NoContribution         *)
(*   "Transfer to beneficiary failed" /                                    *)
(*   "Refund transfer failed"                       TransferFailed         *)
(*   "Beneficiary cannot be zero address"           InvalidBeneficiary     *)
(*   "Goal amount must be greater than zero"        InvalidGoalAmount      *)
(*   "Deadline must be in the future"               InvalidDeadline        *)
(*   the nonReentrant modifier's rejection          ReentrantCall          *)
(***************************************************************************)
EXTENDS Integers, Sequences, FiniteSets, TLC

\* ------------------------------------------------------------------ bounds
MaxPools == 2        \* pools that createPool may open
MaxTime == 2         \* block.timestamp runs over 0..MaxTime
MaxValue == 2        \* msg.value of a contribute call, and each account's funds
LivePools == 1       \* pools opened in the runs checked for progress (LiveSpec)
MaxDeploys == 2      \* ContractDeployed events a chain's log may hold

\* --------------------------------------------------------------- addresses
ZeroAddress == "0x0"                 \* address(0)
Escrow == "NanoPool"                 \* address(this)
EOAs == {"alice", "bob"}             \* externally owned accounts
Contracts == {"kontract"}            \* accounts with code: they run on receiving value
Users == EOAs \cup Contracts
Deployer == "alice"                  \* msg.sender of the constructor

\* The deployer owns the escrow; the other accounts open and fund the pools.
Initiators == Users \ {Deployer}
Beneficiaries == {ZeroAddress} \cup Initiators   \* _beneficiary arguments
Funds == [a \in Users |-> IF a = Deployer THEN 0 ELSE MaxValue]

PoolIds == 0..MaxPools               \* ids a caller may name; 0 is never allocated
GoalAmounts == {0, 3}                \* _goalAmount arguments of createPool
Descriptions == {"pool"}             \* _description arguments of createPool

VARIABLES
    pools,            \* mapping(uint256 => Pool)
    _poolIdCounter,   \* next pool id
    owner,            \* Ownable's owner
    _status,          \* ReentrancyGuard's flag
    balance,          \* native balance of every account and of the escrow
    now,              \* block.timestamp
    stack,            \* outbound transfers whose recipient has not returned yet
    lastCall,         \* the call (or step) made last and how it ended
    totalContributed, \* per pool and account: sum of ContributionMade amounts
    totalRefunded,    \* per pool and account: sum of RefundClaimed amounts
    totalDisbursed,   \* per pool: sum of the values sent to the beneficiary
    emitted,          \* per pool: GoalAchieved and FundsDisbursed events in the log
    accounts,         \* per chain and address: the code and nonce of the account
    deployLog,        \* per chain: number of ContractDeployed events in the log
    deployedAt,       \* per chain, bytecode and salt: the address deploy returned last
    lastDeploy        \* the call made last to a Create2Factory and how it ended

\* The state of the chains that the Create2Factory acts on.
factoryVars == <<accounts, deployLog, deployedAt, lastDeploy>>

\* The state of the escrow.
escrowVars == <<pools, _poolIdCounter, owner, _status, balance, now, stack, lastCall,
                totalContributed, totalRefunded, totalDisbursed, emitted>>

vars == <<pools, _poolIdCounter, owner, _status, balance, now, stack, lastCall,
          totalContributed, totalRefunded, totalDisbursed, emitted,
          accounts, deployLog, deployedAt, lastDeploy>>

\* What a revert of the running call rolls back.
storage == [pools |-> pools, _poolIdCounter |-> _poolIdCounter, owner |-> owner,
            _status |-> _status, balance |-> balance,
            totalContributed |-> totalContributed,
            totalRefunded |-> totalRefunded, totalDisbursed |-> totalDisbursed,
            emitted |-> emitted]

\* A storage slot never written: every field zero.
EmptyPool ==
    [initiator |-> ZeroAddress, beneficiary |-> ZeroAddress, description |-> "",
     goalAmount |-> 0, currentAmount |-> 0, deadlineTimestamp |-> 0,
     goalAchieved |-> FALSE, fundsDisbursed |-> FALSE,
     contributions |-> [a \in Users |-> 0], contributors |-> <<>>]

nested == stack # <<>>

\* Who can make a call now: any account between transactions; while a transfer's
\* recipient is running, only accounts with code.
Callers == IF nested THEN Contracts ELSE Users

Call(op, sender, poolId, result) ==
    [op |-> op, sender |-> sender, poolId |-> poolId, result |-> result,
     nested |-> nested]

\* constructor: _poolIdCounter = 1, pool ids start at 1.
FirstPoolId == 1

NoCall == [op |-> "none", sender |-> ZeroAddress, poolId |-> 0, result |-> "ok",
           nested |-> FALSE]

\* ------------------------------------------------- Create2Factory: the chains
\* The deployer contract is installed at one address on each of two chains.
\* Addresses here are numbers, since create2 computes them; bytes32 and uint160
\* values are scaled down to words that fit 32-bit integers.
Chains == {"chainA", "chainB"}
Factory == 11                        \* address(this) of the Create2Factory
NoAddress == 0                       \* address(0)
Salts == {1, 2}
Senders == {"alice", "bob"}          \* msg.sender of deploy: the code never reads it

\* Init code, named by what it does when create2 runs it: it returns the runtime
\* code, or reverts, or executes SELFDESTRUCT (the created account is then
\* removed when the transaction ends).
Bytecodes == {"returnsCode", "reverts", "selfdestructs"}

\* keccak256(bytecode): collision-free, here a table with distinct entries.
keccak256Bytecode(bytecode) ==
    CASE bytecode = "returnsCode" -> 5
      [] bytecode = "reverts" -> 9
      [] bytecode = "selfdestructs" -> 14

\* abi.encodePacked(bytes1, address, bytes32, bytes32): the fields side by side,
\* most significant first (each field one hexadecimal digit wide but the first).
encodePacked(prefix, deployer, salt, hash) ==
    ((prefix * 16 + deployer) * 16 + salt) * 16 + hash

\* keccak256 of the packed word: a one-to-one scrambling of 20-bit words.
keccak256(word) == (word * 37 + 11) % 1048576

\* address(uint160(uint256(hash))): the low-order bits of the hash.
toAddress(hash) == hash % 65536

\* The address the create2 instruction gives a new account: the low-order bits
\* of keccak256(0xff ++ deployer ++ salt ++ keccak256(init code)).
create2Address(deployer, salt, initCodeHash) ==
    toAddress(keccak256(encodePacked(255, deployer, salt, initCodeHash)))

Addresses ==
    {Factory} \cup
    {create2Address(Factory, s, keccak256Bytecode(b)) : s \in Salts, b \in Bytecodes}

EmptyAccount == [code |-> "", nonce |-> 0]

NotDeployed == [address |-> NoAddress, sender |-> ""]

NoDeploy == [op |-> "none", chain |-> "", sender |-> "", bytecode |-> "",
             hash |-> 0, salt |-> 0, result |-> "ok", address |-> NoAddress]

FactoryInit ==
    /\ accounts = [c \in Chains |-> [a \in Addresses |->
                     IF a = Factory THEN [code |-> "Create2Factory", nonce |-> 1]
                     ELSE EmptyAccount]]
    /\ deployLog = [c \in Chains |-> 0]
    /\ deployedAt = [c \in Chains |-> [k \in Bytecodes \X Salts |-> NotDeployed]]
    /\ lastDeploy = NoDeploy

Init ==
    /\ pools = [i \in PoolIds |-> EmptyPool]
    /\ _poolIdCounter = FirstPoolId
    /\ owner = Deployer
    /\ _status = "NOT_ENTERED"
    /\ balance = [a \in Users \cup {Escrow} |-> IF a = Escrow THEN 0 ELSE Funds[a]]
    /\ now = 0
    /\ stack = <<>>
    /\ lastCall = NoCall
    /\ totalContributed = [i \in PoolIds |-> [a \in Users |-> 0]]
    /\ totalRefunded = [i \in PoolIds |-> [a \in Users |-> 0]]
    /\ totalDisbursed = [i \in PoolIds |-> 0]
    /\ emitted = [i \in PoolIds |-> [GoalAchieved |-> 0, FundsDisbursed |-> 0]]
    /\ FactoryInit

\* ------------------------------------------------------------- createPool
\* Mutant: a deadline equal to the current time is accepted.
createPoolRevert_DeadlineNow(_beneficiary, _goalAmount, _deadlineTimestamp) ==
    IF _beneficiary = ZeroAddress THEN "InvalidBeneficiary"
    ELSE IF ~(_goalAmount > 0) THEN "InvalidGoalAmount"
    ELSE IF ~(_deadlineTimestamp >= now) THEN "InvalidDeadline"
    ELSE "ok"

createPoolRevert(_beneficiary, _goalAmount, _deadlineTimestamp) ==
    IF _beneficiary = ZeroAddress THEN "InvalidBeneficiary"
    ELSE IF ~(_goalAmount > 0) THEN "InvalidGoalAmount"
    ELSE IF ~(_deadlineTimestamp > now) THEN "InvalidDeadline"
    ELSE "ok"

\* Mutant: the beneficiary is recorded as the initiator.
NewPool_Swapped(sender, _beneficiary, _description, _goalAmount, _deadlineTimestamp) ==
    [initiator |-> _beneficiary, beneficiary |-> _beneficiary,
     description |-> _description, goalAmount |-> _goalAmount,
     currentAmount |-> 0, deadlineTimestamp |-> _deadlineTimestamp,
     goalAchieved |-> FALSE, fundsDisbursed |-> FALSE,
     contributions |-> [a \in Users |-> 0], contributors |-> <<>>]

NewPool(sender, _beneficiary, _description, _goalAmount, _deadlineTimestamp) ==
    [initiator |-> sender, beneficiary |-> _beneficiary,
     description |-> _description, goalAmount |-> _goalAmount,
     currentAmount |-> 0, deadlineTimestamp |-> _deadlineTimestamp,
     goalAchieved |-> FALSE, fundsDisbursed |-> FALSE,
     contributions |-> [a \in Users |-> 0], contributors |-> <<>>]

\* Mutant: every pool is stored under id 1.
nextPoolId_First == FirstPoolId

\* Mutant: the id counter starts at 0.
nextPoolId_FromZero == _poolIdCounter - 1

\* The id createPool allocates: the counter's value before its increment.
nextPoolId == _poolIdCounter

createPool(sender, _beneficiary, _description, _goalAmount, _deadlineTimestamp) ==
    LET r == createPoolRevert(_beneficiary, _goalAmount, _deadlineTimestamp)
        poolId == nextPoolId
    IN  IF r # "ok"
        THEN /\ lastCall' = Call("createPool", sender, 0, r)
             /\ UNCHANGED <<pools, _poolIdCounter>>
        ELSE /\ poolId <= MaxPools
             /\ _deadlineTimestamp <= MaxTime
             /\ _poolIdCounter' = _poolIdCounter + 1
             /\ pools' = [pools EXCEPT ![poolId] =
                    [NewPool(sender, _beneficiary, _description, _goalAmount,
                             _deadlineTimestamp)
                        EXCEPT !.contributions = pools[poolId].contributions]]
             /\ lastCall' = Call("createPool", sender, poolId, "ok")

CreatePool ==
    /\ UNCHANGED factoryVars
    /\ lastCall = NoCall
    /\ \E sender \in Callers \cap Initiators, _beneficiary \in Beneficiaries,
          _description \in Descriptions, _goalAmount \in GoalAmounts,
          _deadlineTimestamp \in {0, now, now + 1} :
            createPool(sender, _beneficiary, _description, _goalAmount,
                       _deadlineTimestamp)
    /\ UNCHANGED <<owner, _status, balance, now, stack, totalContributed,
                   totalRefunded, totalDisbursed, emitted>>

\* -------------------------------------------------------- ReentrancyGuard
\* Mutant: a guard that never rejects.
nonReentrant_Off == "ok"

\* modifier nonReentrant: rejects when the flag is set.
nonReentrant == IF _status = "ENTERED" THEN "ReentrantCall" ELSE "ok"

\* -------------------------------------------------------------- contribute
\* Mutant: contribute accepted at the very time of the deadline.
contributeRevert_DeadlineInclusive(_poolId, value) ==
    LET pool == pools[_poolId]
    IN  IF _status = "ENTERED" THEN "ReentrantCall"
        ELSE IF ~(pool.initiator # ZeroAddress) THEN "PoolNotFound"
        ELSE IF ~(now <= pool.deadlineTimestamp) THEN "DeadlinePassed"
        ELSE IF ~(~pool.goalAchieved) THEN "GoalAlreadyAchieved"
        ELSE IF ~(value > 0) THEN "ZeroContribution"
        ELSE "ok"

\* Mutant: contribute without its check of goalAchieved.
contributeRevert_NoGoalCheck(_poolId, value) ==
    LET pool == pools[_poolId]
    IN  IF _status = "ENTERED" THEN "ReentrantCall"
        ELSE IF ~(pool.initiator # ZeroAddress) THEN "PoolNotFound"
        ELSE IF ~(now < pool.deadlineTimestamp) THEN "DeadlinePassed"
        ELSE IF ~(value > 0) THEN "ZeroContribution"
        ELSE "ok"

contributeRevert(_poolId, value) ==
    LET pool == pools[_poolId]
    IN  IF nonReentrant # "ok" THEN nonReentrant
        ELSE IF ~(pool.initiator # ZeroAddress) THEN "PoolNotFound"
        ELSE IF ~(now < pool.deadlineTimestamp) THEN "DeadlinePassed"
        ELSE IF ~(~pool.goalAchieved) THEN "GoalAlreadyAchieved"
        ELSE IF ~(value > 0) THEN "ZeroContribution"
        ELSE "ok"

\* Mutant: the goal counts as reached only when it is exceeded.
goalReached_Strict(pool) == pool.currentAmount > pool.goalAmount /\ ~pool.goalAchieved

\* The condition under which contribute sets goalAchieved and emits GoalAchieved.
goalReached(pool) == pool.currentAmount >= pool.goalAmount /\ ~pool.goalAchieved

\* Mutant: a contribution recorded in the ledger but not in currentAmount.
contributeLedger_LedgerOnly(pool, sender, value) ==
    LET p1 == IF pool.contributions[sender] = 0
              THEN [pool EXCEPT !.contributors = Append(@, sender)]
              ELSE pool
    IN  [p1 EXCEPT !.contributions[sender] = @ + value]

\* Mutant: every contribution appends its sender to contributors.
contributeLedger_AlwaysAppends(pool, sender, value) ==
    [pool EXCEPT !.contributors = Append(@, sender),
                 !.contributions[sender] = @ + value,
                 !.currentAmount = @ + value]

\* Mutant: a contribution that never records its sender in contributors.
contributeLedger_NoPush(pool, sender, value) ==
    [pool EXCEPT !.contributions[sender] = @ + value,
                 !.currentAmount = @ + value]

\* The ledger and aggregate of the pool after a contribution.
contributeLedger(pool, sender, value) ==
    LET p1 == IF pool.contributions[sender] = 0
              THEN [pool EXCEPT !.contributors = Append(@, sender)]
              ELSE pool
    IN  [p1 EXCEPT !.contributions[sender] = @ + value,
                   !.currentAmount = @ + value]

\* The body of contribute after its checks: the pool as it is stored at the end.
contributeEffect(pool, sender, value) ==
    LET p2 == contributeLedger(pool, sender, value)
    IN  IF goalReached(p2)
        THEN [p2 EXCEPT !.goalAchieved = TRUE]
        ELSE p2

contribute(sender, _poolId, value) ==
    LET r == contributeRevert(_poolId, value)
    IN  /\ value <= balance[sender]
        /\ lastCall' = Call("contribute", sender, _poolId, r)
        /\ IF r # "ok"
           THEN UNCHANGED <<pools, balance, totalContributed, emitted>>
           ELSE /\ pools' = [pools EXCEPT ![_poolId] =
                                contributeEffect(pools[_poolId], sender, value)]
                /\ emitted' =
                       IF goalReached(contributeLedger(pools[_poolId], sender, value))
                       THEN [emitted EXCEPT ![_poolId].GoalAchieved = @ + 1]
                       ELSE emitted
                /\ balance' = [balance EXCEPT ![sender] = @ - value,
                                              ![Escrow] = @ + value]
                /\ totalContributed' =
                       [totalContributed EXCEPT ![_poolId][sender] = @ + value]

Contribute ==
    /\ UNCHANGED factoryVars
    /\ lastCall = NoCall
    /\ \E sender \in Callers, _poolId \in PoolIds, value \in 0..MaxValue :
            contribute(sender, _poolId, value)
    /\ UNCHANGED <<_poolIdCounter, owner, _status, now, stack, totalRefunded,
                   totalDisbursed>>

\* ------------------------------------------------------ outbound transfers
\* to.call{value: amount}(""): what the low-level call does at once.
\*   "failed"  the escrow cannot pay, or the recipient is the escrow itself,
\*             which has no receive or fallback function;
\*   "done"    the recipient has no code: the value arrives and the call returns;
\*   "running" the recipient has code: the value arrives and its code runs.
callValue(to, amount) ==
    IF balance[Escrow] < amount \/ to = Escrow THEN "failed"
    ELSE IF to \in Contracts THEN "running"
    ELSE "done"

Frame(op, sender, poolId, to, amount) ==
    [op |-> op, sender |-> sender, poolId |-> poolId, to |-> to,
     amount |-> amount, saved |-> storage, wasNested |-> nested]

\* ----------------------------------------------------------- disburseFunds
\* Mutant: disburseFunds without its check of the deadline.
disburseFundsRevert_NoDeadline(sender, _poolId) ==
    LET pool == pools[_poolId]
    IN  IF _status = "ENTERED" THEN "ReentrantCall"
        ELSE IF ~(pool.initiator # ZeroAddress) THEN "PoolNotFound"
        ELSE IF ~(sender = pool.initiator \/ sender = owner) THEN "Unauthorized"
        ELSE IF ~pool.goalAchieved THEN "GoalNotAchieved"
        ELSE IF ~(~pool.fundsDisbursed) THEN "AlreadyDisbursed"
        ELSE "ok"

\* Mutant: disburseFunds without its check of fundsDisbursed.
disburseFundsRevert_NoDisbursedCheck(sender, _poolId) ==
    LET pool == pools[_poolId]
    IN  IF _status = "ENTERED" THEN "ReentrantCall"
        ELSE IF ~(pool.initiator # ZeroAddress) THEN "PoolNotFound"
        ELSE IF ~(sender = pool.initiator \/ sender = owner) THEN "Unauthorized"
        ELSE IF ~pool.goalAchieved THEN "GoalNotAchieved"
        ELSE IF ~(now >= pool.deadlineTimestamp) THEN "DeadlineNotReached"
        ELSE "ok"

\* Mutant: disburseFunds without its check of the caller.
disburseFundsRevert_NoAuth(sender, _poolId) ==
    LET pool == pools[_poolId]
    IN  IF _status = "ENTERED" THEN "ReentrantCall"
        ELSE IF ~(pool.initiator # ZeroAddress) THEN "PoolNotFound"
        ELSE IF ~pool.goalAchieved THEN "GoalNotAchieved"
        ELSE IF ~(~pool.fundsDisbursed) THEN "AlreadyDisbursed"
        ELSE IF ~(now >= pool.deadlineTimestamp) THEN "DeadlineNotReached"
        ELSE "ok"

\* Mutant: disburseFunds without its check of goalAchieved.
disburseFundsRevert_NoGoal(sender, _poolId) ==
    LET pool == pools[_poolId]
    IN  IF _status = "ENTERED" THEN "ReentrantCall"
        ELSE IF ~(pool.initiator # ZeroAddress) THEN "PoolNotFound"
        ELSE IF ~(sender = pool.initiator \/ sender = owner) THEN "Unauthorized"
        ELSE IF ~(~pool.fundsDisbursed) THEN "AlreadyDisbursed"
        ELSE IF ~(now >= pool.deadlineTimestamp) THEN "DeadlineNotReached"
        ELSE "ok"

\* Mutant: only the owner may disburse.
disburseFundsRevert_OwnerOnly(sender, _poolId) ==
    LET pool == pools[_poolId]
    IN  IF _status = "ENTERED" THEN "ReentrantCall"
        ELSE IF ~(pool.initiator # ZeroAddress) THEN "PoolNotFound"
        ELSE IF ~(sender = owner) THEN "Unauthorized"
        ELSE IF ~pool.goalAchieved THEN "GoalNotAchieved"
        ELSE IF ~(~pool.fundsDisbursed) THEN "AlreadyDisbursed"
        ELSE IF ~(now >= pool.deadlineTimestamp) THEN "DeadlineNotReached"
        ELSE "ok"

disburseFundsRevert(sender, _poolId) ==
    LET pool == pools[_poolId]
    IN  IF nonReentrant # "ok" THEN nonReentrant
        ELSE IF ~(pool.initiator # ZeroAddress) THEN "PoolNotFound"
        ELSE IF ~(sender = pool.initiator \/ sender = owner) THEN "Unauthorized"
        ELSE IF ~pool.goalAchieved THEN "GoalNotAchieved"
        ELSE IF ~(~pool.fundsDisbursed) THEN "AlreadyDisbursed"
        ELSE IF ~(now >= pool.deadlineTimestamp) THEN "DeadlineNotReached"
        ELSE "ok"

\* Mutant: disburseFunds that deletes the pool it pays out.
disburseFundsEffect_Deletes(pool) == EmptyPool

\* Mutant: disburseFunds that never sets fundsDisbursed.
disburseFundsEffect_NoFlag(pool) == pool

\* The writes of disburseFunds before its transfer.
disburseFundsEffect(pool) == [pool EXCEPT !.fundsDisbursed = TRUE]

\* Mutant: disburseFunds that sends one unit more than was collected.
disburseFundsValue_PlusOne(pool) == pool.currentAmount + 1

\* Mutant: disburseFunds that sends the goal instead of what was collected.
disburseFundsValue_Goal(pool) == pool.goalAmount

\* The value disburseFunds sends.
disburseFundsValue(pool) == pool.currentAmount

disburseFunds(sender, _poolId) ==
    LET r == disburseFundsRevert(sender, _poolId)
        pool == pools[_poolId]
        to == pool.beneficiary
        amount == disburseFundsValue(pool)
        sent == callValue(to, amount)
    IN  IF r # "ok"
        THEN /\ lastCall' = Call("disburseFunds", sender, _poolId, r)
             /\ UNCHANGED <<pools, _status, balance, stack, totalDisbursed, emitted>>
        ELSE IF sent = "failed"
        THEN /\ lastCall' = Call("disburseFunds", sender, _poolId, "TransferFailed")
             /\ UNCHANGED <<pools, _status, balance, stack, totalDisbursed, emitted>>
        ELSE /\ pools' = [pools EXCEPT ![_poolId] = disburseFundsEffect(pool)]
             /\ balance' = [balance EXCEPT ![Escrow] = @ - amount, ![to] = @ + amount]
             /\ totalDisbursed' = [totalDisbursed EXCEPT ![_poolId] = @ + amount]
             /\ IF sent = "running"
                THEN /\ stack' = <<Frame("disburseFunds", sender, _poolId, to, amount)>>
                                     \o stack
                     /\ _status' = "ENTERED"
                     /\ lastCall' = Call("disburseFunds", sender, _poolId, "pending")
                     /\ UNCHANGED emitted
                ELSE /\ UNCHANGED <<stack, _status>>
                     /\ emitted' = [emitted EXCEPT ![_poolId].FundsDisbursed = @ + 1]
                     /\ lastCall' = Call("disburseFunds", sender, _poolId, "ok")

DisburseFunds ==
    /\ UNCHANGED factoryVars
    /\ lastCall = NoCall
    /\ \E sender \in Callers, _poolId \in PoolIds : disburseFunds(sender, _poolId)
    /\ UNCHANGED <<_poolIdCounter, owner, now, totalContributed, totalRefunded>>

\* ------------------------------------------------------------- claimRefund
\* Mutant: claimRefund without its check of goalAchieved.
claimRefundRevert_NoGoalCheck(sender, _poolId) ==
    LET pool == pools[_poolId]
    IN  IF _status = "ENTERED" THEN "ReentrantCall"
        ELSE IF ~(pool.initiator # ZeroAddress) THEN "PoolNotFound"
        ELSE IF ~(now >= pool.deadlineTimestamp) THEN "DeadlineNotReached"
        ELSE IF ~(pool.contributions[sender] > 0) THEN "NoContribution"
        ELSE "ok"

\* Mutant: claimRefund without its check of the deadline.
claimRefundRevert_NoDeadline(sender, _poolId) ==
    LET pool == pools[_poolId]
    IN  IF _status = "ENTERED" THEN "ReentrantCall"
        ELSE IF ~(pool.initiator # ZeroAddress) THEN "PoolNotFound"
        ELSE IF ~(~pool.goalAchieved) THEN "GoalWasAchieved"
        ELSE IF ~(pool.contributions[sender] > 0) THEN "NoContribution"
        ELSE "ok"

claimRefundRevert(sender, _poolId) ==
    LET pool == pools[_poolId]
    IN  IF nonReentrant # "ok" THEN nonReentrant
        ELSE IF ~(pool.initiator # ZeroAddress) THEN "PoolNotFound"
        ELSE IF ~(now >= pool.deadlineTimestamp) THEN "DeadlineNotReached"
        ELSE IF ~(~pool.goalAchieved) THEN "GoalWasAchieved"
        ELSE IF ~(pool.contributions[sender] > 0) THEN "NoContribution"
        ELSE "ok"

\* Mutant: claimRefund that leaves the caller's ledger entry as it is.
claimRefundEffect_NoZero(pool, sender) == pool

\* Mutant: claimRefund that also takes the refund off currentAmount.
claimRefundEffect_DecrementsTotal(pool, sender) ==
    [pool EXCEPT !.contributions[sender] = 0,
                 !.currentAmount = @ - pool.contributions[sender]]

\* The writes of claimRefund before its transfer.
claimRefundEffect(pool, sender) == [pool EXCEPT !.contributions[sender] = 0]

claimRefund(sender, _poolId) ==
    LET r == claimRefundRevert(sender, _poolId)
        pool == pools[_poolId]
        contributionAmount == pool.contributions[sender]
        sent == callValue(sender, contributionAmount)
    IN  IF r # "ok"
        THEN /\ lastCall' = Call("claimRefund", sender, _poolId, r)
             /\ UNCHANGED <<pools, _status, balance, stack, totalRefunded>>
        ELSE IF sent = "failed"
        THEN /\ lastCall' = Call("claimRefund", sender, _poolId, "TransferFailed")
             /\ UNCHANGED <<pools, _status, balance, stack, totalRefunded>>
        ELSE /\ pools' = [pools EXCEPT ![_poolId] = claimRefundEffect(pool, sender)]
             /\ balance' = [balance EXCEPT ![Escrow] = @ - contributionAmount,
                                           ![sender] = @ + contributionAmount]
             /\ totalRefunded' =
                    [totalRefunded EXCEPT ![_poolId][sender] = @ + contributionAmount]
             /\ IF sent = "running"
                THEN /\ stack' = <<Frame("claimRefund", sender, _poolId, sender,
                                         contributionAmount)>> \o stack
                     /\ _status' = "ENTERED"
                     /\ lastCall' = Call("claimRefund", sender, _poolId, "pending")
                ELSE /\ UNCHANGED <<stack, _status>>
                     /\ lastCall' = Call("claimRefund", sender, _poolId, "ok")

ClaimRefund ==
    /\ UNCHANGED factoryVars
    /\ lastCall = NoCall
    /\ \E sender \in Callers, _poolId \in PoolIds : claimRefund(sender, _poolId)
    /\ UNCHANGED <<_poolIdCounter, owner, now, totalContributed, totalDisbursed,
                   emitted>>

\* ------------------------------------------------------------- view functions
\* What a view function answers: the rejection, or "ok" and the values returned.
getPoolDetails(_poolId) ==
    LET pool == pools[_poolId]
    IN  IF ~(pool.initiator # ZeroAddress)
        THEN [result |-> "PoolNotFound", value |-> <<>>]
        ELSE [result |-> "ok",
              value |-> <<pool.initiator, pool.beneficiary, pool.description,
                          pool.goalAmount, pool.currentAmount,
                          pool.deadlineTimestamp, pool.goalAchieved,
                          pool.fundsDisbursed>>]

\* Mutant: getContribution without its check that the pool exists.
getContribution_NoCheck(_poolId, _contributor) ==
    [result |-> "ok", value |-> pools[_poolId].contributions[_contributor]]

getContribution(_poolId, _contributor) ==
    LET pool == pools[_poolId]
    IN  IF ~(pool.initiator # ZeroAddress)
        THEN [result |-> "PoolNotFound", value |-> 0]
        ELSE [result |-> "ok", value |-> pool.contributions[_contributor]]

getContributors(_poolId) ==
    LET pool == pools[_poolId]
    IN  IF ~(pool.initiator # ZeroAddress)
        THEN [result |-> "PoolNotFound", value |-> <<>>]
        ELSE [result |-> "ok", value |-> pool.contributors]

\* --------------------------------------------- the recipient's code returns
\* The recipient accepts the value: the transfer reports success, the running
\* operation emits its event and the guard is released.
ReceiveAccept ==
    /\ UNCHANGED factoryVars
    /\ lastCall = NoCall
    /\ nested
    /\ LET f == Head(stack)
       IN  /\ stack' = Tail(stack)
           /\ _status' = "NOT_ENTERED"
           /\ lastCall' = [op |-> f.op, sender |-> f.sender, poolId |-> f.poolId,
                           result |-> "ok", nested |-> f.wasNested]
           /\ emitted' = IF f.op = "disburseFunds"
                         THEN [emitted EXCEPT ![f.poolId].FundsDisbursed = @ + 1]
                         ELSE emitted
    /\ UNCHANGED <<pools, _poolIdCounter, owner, balance, now, totalContributed,
                   totalRefunded, totalDisbursed>>

\* Mutant: the result of the transfer is not checked; the call ends with its
\* writes kept, the value back in the escrow and the guard released.
revertTo_KeepsWrites(saved) ==
    /\ balance' = saved.balance
    /\ _status' = saved._status
    /\ UNCHANGED <<pools, _poolIdCounter, owner, totalContributed, totalRefunded,
                   totalDisbursed, emitted>>

\* What require(success, ...) does when the transfer reports failure: the whole
\* call reverts, the writes made since it began included.
revertTo(saved) ==
    /\ pools' = saved.pools
    /\ _poolIdCounter' = saved._poolIdCounter
    /\ owner' = saved.owner
    /\ _status' = saved._status
    /\ balance' = saved.balance
    /\ totalContributed' = saved.totalContributed
    /\ totalRefunded' = saved.totalRefunded
    /\ totalDisbursed' = saved.totalDisbursed
    /\ emitted' = saved.emitted

\* The recipient's code reverts: the transfer reports failure.
ReceiveReject ==
    /\ UNCHANGED factoryVars
    /\ lastCall = NoCall
    /\ nested
    /\ LET f == Head(stack)
       IN  /\ stack' = Tail(stack)
           /\ revertTo(f.saved)
           /\ lastCall' = [op |-> f.op, sender |-> f.sender, poolId |-> f.poolId,
                           result |-> "TransferFailed", nested |-> f.wasNested]
    /\ UNCHANGED now

\* -------------------------------------------------------------- block time
Tick ==
    /\ UNCHANGED factoryVars
    /\ ~nested
    /\ now < MaxTime
    /\ lastCall = NoCall
    /\ now' = now + 1
    /\ UNCHANGED <<pools, _poolIdCounter, owner, _status, balance, stack, lastCall,
                   totalContributed, totalRefunded, totalDisbursed, emitted>>

\* --------------------------------------------------- the caller is answered
\* The result of the last call has been handed to its caller; the next call or
\* step can begin.
Return ==
    /\ UNCHANGED factoryVars
    /\ lastCall # NoCall
    /\ lastCall' = NoCall
    /\ UNCHANGED <<pools, _poolIdCounter, owner, _status, balance, now, stack,
                   totalContributed, totalRefunded, totalDisbursed, emitted>>

Next ==
    \/ Return
    \/ CreatePool
    \/ Contribute
    \/ DisburseFunds
    \/ ClaimRefund
    \/ ReceiveAccept
    \/ ReceiveReject
    \/ Tick

Spec == Init /\ [][Next]_vars

\* ------------------------------------------------------- resolution, fairly
\* The initiator's disburseFunds(p), made when its checks pass.
DisburseByInitiator(p) ==
    /\ UNCHANGED factoryVars
    /\ lastCall = NoCall
    /\ disburseFundsRevert(pools[p].initiator, p) = "ok"
    /\ disburseFunds(pools[p].initiator, p)
    /\ UNCHANGED <<_poolIdCounter, owner, now, totalContributed, totalRefunded>>

\* Contributor c's claimRefund(p), made when its checks pass.
RefundTo(c, p) ==
    /\ UNCHANGED factoryVars
    /\ lastCall = NoCall
    /\ claimRefundRevert(c, p) = "ok"
    /\ claimRefund(c, p)
    /\ UNCHANGED <<_poolIdCounter, owner, now, totalContributed, totalDisbursed,
                   emitted>>

\* createPool in the runs checked for progress.
LiveCreatePool == CreatePool /\ _poolIdCounter <= LivePools

\* The escrow with recipients that accept the value sent to them.
LiveNext ==
    \/ Return
    \/ LiveCreatePool
    \/ Contribute
    \/ DisburseFunds
    \/ ClaimRefund
    \/ ReceiveAccept
    \/ Tick

\* A call is possible at every point between two calls, so a caller who keeps
\* trying gets its call in: in steps of this model, where a call waits for the
\* previous one to be answered, that is strong fairness of the call together
\* with weak fairness of Return.  A recipient's code ends, accepting the value.
LiveSpec ==
    /\ Init
    /\ [][LiveNext]_vars
    /\ WF_vars(Return)
    /\ SF_vars(ReceiveAccept)
    /\ \A p \in 1..MaxPools :
        /\ SF_vars(DisburseByInitiator(p))
        /\ \A c \in Users : SF_vars(RefundTo(c, p))

\* ------------------------------------------------------------ Create2Factory
DeployCall(op, chain, sender, bytecode, hash, salt, result, address) ==
    [op |-> op, chain |-> chain, sender |-> sender, bytecode |-> bytecode,
     hash |-> hash, salt |-> salt, result |-> result, address |-> address]

\* What running the init code leaves at the new address.  A new contract
\* account starts with nonce 1; an account whose init code self-destructs is
\* gone when the transaction ends.
initCode(bytecode) ==
    CASE bytecode = "returnsCode" ->
           [reverted |-> FALSE, account |-> [code |-> "runtime", nonce |-> 1]]
      [] bytecode = "reverts" ->
           [reverted |-> TRUE, account |-> EmptyAccount]
      [] bytecode = "selfdestructs" ->
           [reverted |-> FALSE, account |-> EmptyAccount]

\* create2(0, add(bytecode, 0x20), mload(bytecode), salt): the new address, or
\* zero when the address is taken (code or nonce there) or the init code reverts.
create2(chain, bytecode, salt) ==
    LET a == create2Address(Factory, salt, keccak256Bytecode(bytecode))
    IN  IF accounts[chain][a] # EmptyAccount \/ initCode(bytecode).reverted
        THEN NoAddress
        ELSE a

\* The accounts of the chain once create2 has answered deployedAddress.
created(chain, bytecode, deployedAddress) ==
    IF deployedAddress = NoAddress
    THEN accounts
    ELSE [accounts EXCEPT ![chain][Factory].nonce = @ + 1,
                          ![chain][deployedAddress] = initCode(bytecode).account]

deployRevert_NoRequire(deployedAddress) == "ok"

\* require(deployedAddress != address(0), "Create2Factory: deployment failed")
deployRevert(deployedAddress) ==
    IF deployedAddress = NoAddress THEN "DeploymentFailed" ELSE "ok"

\* deploy(bytecode, salt): create2, the require, then the ContractDeployed event.
\* A failed require undoes the whole call.
Deploy ==
    /\ lastDeploy = NoDeploy
    /\ \E c \in Chains, sender \in Senders, bytecode \in Bytecodes, salt \in Salts :
        LET deployedAddress == create2(c, bytecode, salt)
            result == deployRevert(deployedAddress)
        IN  /\ result = "ok" => deployLog[c] < MaxDeploys
            /\ lastDeploy' = DeployCall("deploy", c, sender, bytecode,
                                        keccak256Bytecode(bytecode), salt, result,
                                        IF result = "ok" THEN deployedAddress
                                        ELSE NoAddress)
            /\ IF result = "ok"
               THEN /\ accounts' = created(c, bytecode, deployedAddress)
                    /\ deployLog' = [deployLog EXCEPT ![c] = @ + 1]
                    /\ deployedAt' = [deployedAt EXCEPT ![c][<<bytecode, salt>>] =
                                        [address |-> deployedAddress,
                                         sender |-> sender]]
               ELSE UNCHANGED <<accounts, deployLog, deployedAt>>
            /\ UNCHANGED escrowVars

computeAddress_SaltLast(bytecode, salt) ==
    toAddress(keccak256(encodePacked(255, Factory, keccak256Bytecode(bytecode), salt)))

\* computeAddress(bytecode, salt)
computeAddress(bytecode, salt) ==
    LET hash == keccak256(encodePacked(255, Factory, salt,
                                       keccak256Bytecode(bytecode)))
    IN  toAddress(hash)

computeAddressFromHash_NoSalt(bytecodeHash, salt) ==
    toAddress(keccak256(encodePacked(255, Factory, 0, bytecodeHash)))

\* computeAddressFromHash(bytecodeHash, salt)
computeAddressFromHash(bytecodeHash, salt) ==
    LET hash == keccak256(encodePacked(255, Factory, salt, bytecodeHash))
    IN  toAddress(hash)

\* A call of the view computeAddress: it answers and writes nothing.
ComputeAddress ==
    /\ lastDeploy = NoDeploy
    /\ \E c \in Chains, sender \in Senders, bytecode \in Bytecodes, salt \in Salts :
        /\ lastDeploy' = DeployCall("computeAddress", c, sender, bytecode,
                                    keccak256Bytecode(bytecode), salt, "ok",
                                    computeAddress(bytecode, salt))
        /\ UNCHANGED <<accounts, deployLog, deployedAt>>
        /\ UNCHANGED escrowVars

\* Hashes a caller may pass: those of the bytecodes and one of no known bytecode.
Hashes == {keccak256Bytecode(b) : b \in Bytecodes} \cup {3}

\* A call of the view computeAddressFromHash.
ComputeAddressFromHash ==
    /\ lastDeploy = NoDeploy
    /\ \E c \in Chains, sender \in Senders, bytecodeHash \in Hashes, salt \in Salts :
        /\ lastDeploy' = DeployCall("computeAddressFromHash", c, sender, "",
                                    bytecodeHash, salt, "ok",
                                    computeAddressFromHash(bytecodeHash, salt))
        /\ UNCHANGED <<accounts, deployLog, deployedAt>>
        /\ UNCHANGED escrowVars

\* The caller has its answer: the next call can be made.
FactoryReturn ==
    /\ lastDeploy # NoDeploy
    /\ lastDeploy' = NoDeploy
    /\ UNCHANGED <<accounts, deployLog, deployedAt>>
    /\ UNCHANGED escrowVars

FactoryNext ==
    \/ FactoryReturn
    \/ Deploy
    \/ ComputeAddress
    \/ ComputeAddressFromHash

FactorySpec == Init /\ [][FactoryNext]_vars

\* ==================================================================== claims
\* How a step is read.  A call begins only after the previous one has returned
\* (lastCall = NoCall), and lastCall' then names it; a step that shortens the
\* stack is the return of an outbound transfer, which completes the operation
\* that made it.
Called(op, sender, poolId) ==
    /\ lastCall = NoCall
    /\ Len(stack') >= Len(stack)
    /\ lastCall'.op = op
    /\ lastCall'.sender = sender
    /\ lastCall'.poolId = poolId

TransferReturned == Len(stack') < Len(stack)

\* The operation lastCall' names has ended (not merely begun) with `result`.
Ended(op, sender, poolId, result) ==
    /\ lastCall = NoCall
    /\ lastCall'.op = op
    /\ lastCall'.sender = sender
    /\ lastCall'.poolId = poolId
    /\ lastCall'.result = result

\* The storage as it was when the operation ending in this step was called.
Before == IF TransferReturned THEN Head(stack).saved ELSE storage

Rejections == {"ReentrantCall", "PoolNotFound", "DeadlinePassed",
               "GoalAlreadyAchieved", "ZeroContribution", "Unauthorized",
               "GoalNotAchieved", "AlreadyDisbursed", "DeadlineNotReached",
               "GoalWasAchieved", "NoContribution", "TransferFailed"}

Exists(p) == pools[p].initiator # ZeroAddress

\* The outbound transfer of `op` on pool p is under way.
Transferring(op, p) ==
    \E i \in 1..Len(stack) : stack[i].op = op /\ stack[i].poolId = p

\* ------------------------------------------------------------------------ C1
\* C1: while disburseFunds(p) or claimRefund(p) is making its outbound transfer,
\* a nested call of disburseFunds(p) or claimRefund(p) is rejected; and over any
\* nesting of calls the value sent to the beneficiary of a pool is nothing or its
\* currentAmount, once, and what a contributor has been paid back plus what its
\* ledger entry still holds is what it contributed.
C1_NestedRejectedPaidOnce ==
    /\ (/\ lastCall.nested
        /\ lastCall.op \in {"disburseFunds", "claimRefund"}
        /\ nested
        /\ lastCall.poolId = Head(stack).poolId)
       => lastCall.result \in Rejections
    /\ \A p \in PoolIds :
        /\ totalDisbursed[p] = IF pools[p].fundsDisbursed
                               THEN pools[p].currentAmount ELSE 0
        /\ \A c \in Users :
            /\ totalRefunded[p][c] + pools[p].contributions[c]
                   = totalContributed[p][c]
            /\ totalRefunded[p][c] <= totalContributed[p][c]

\* A claimRefund(p) nested in the transfer of claimRefund(p), by the same
\* caller, has been rejected.
C1_Witness ==
    /\ nested
    /\ lastCall.nested
    /\ lastCall.op = "claimRefund"
    /\ Head(stack).op = "claimRefund"
    /\ lastCall.poolId = Head(stack).poolId
    /\ lastCall.sender = Head(stack).sender
    /\ lastCall.result = "ReentrantCall"

\* ------------------------------------------------------------------------ C2
\* C2 as claimed: every call of disburseFunds on an existing pool before its
\* deadline rejects with DeadlineNotReached and changes no state.
C2_Original ==
    [][\A s \in Users, p \in PoolIds :
        (Called("disburseFunds", s, p) /\ Exists(p)
            /\ now < pools[p].deadlineTimestamp)
        => (lastCall'.result = "DeadlineNotReached" /\ storage' = storage)]_vars

\* C2 as amended: every call of disburseFunds on an existing pool before its
\* deadline is rejected and changes no state.  The rejection is the first failed
\* check in the order of the code: the reentrancy guard's for a nested call,
\* then Unauthorized, then GoalNotAchieved; it is DeadlineNotReached when the
\* call is not nested, the caller is the initiator or the owner and goalAchieved
\* is true.
C2_RejectedBeforeDeadline ==
    [][\A s \in Users, p \in PoolIds :
        (Called("disburseFunds", s, p) /\ Exists(p)
            /\ now < pools[p].deadlineTimestamp)
        => /\ storage' = storage
           /\ lastCall'.result =
                IF nested THEN "ReentrantCall"
                ELSE IF ~(s = pools[p].initiator \/ s = owner) THEN "Unauthorized"
                ELSE IF ~pools[p].goalAchieved THEN "GoalNotAchieved"
                ELSE "DeadlineNotReached"]_vars

\* The goal is achieved, the deadline is ahead, and the initiator's or owner's
\* disburseFunds has been rejected with DeadlineNotReached.
C2_Witness ==
    /\ lastCall.op = "disburseFunds"
    /\ lastCall.result = "DeadlineNotReached"
    /\ pools[lastCall.poolId].goalAchieved
    /\ now < pools[lastCall.poolId].deadlineTimestamp
    /\ balance[Escrow] >= pools[lastCall.poolId].currentAmount

\* ------------------------------------------------------------------------ C3
\* C3 as claimed: every call of claimRefund on a pool whose goalAchieved is true
\* rejects with GoalWasAchieved, whatever the time and the caller's ledger entry.
C3_Original ==
    [][\A s \in Users, p \in PoolIds :
        (Called("claimRefund", s, p) /\ pools[p].goalAchieved)
        => lastCall'.result = "GoalWasAchieved"]_vars

\* C3 as amended: every call of claimRefund on a pool whose goalAchieved is true
\* is rejected and changes no state, whatever the time and the caller's ledger
\* entry; the rejection is GoalWasAchieved when the call is made at or after the
\* deadline and is not nested, DeadlineNotReached when it is made before the
\* deadline (the deadline is checked first), and the reentrancy guard's when
\* the call is nested.
C3_RejectedWhenGoalAchieved ==
    [][\A s \in Users, p \in PoolIds :
        (Called("claimRefund", s, p) /\ pools[p].goalAchieved)
        => /\ storage' = storage
           /\ lastCall'.result =
                IF nested THEN "ReentrantCall"
                ELSE IF now < pools[p].deadlineTimestamp THEN "DeadlineNotReached"
                ELSE "GoalWasAchieved"]_vars

\* A contributor of an achieved pool has been refused with GoalWasAchieved after
\* the deadline.
C3_Witness ==
    /\ lastCall.op = "claimRefund"
    /\ lastCall.result = "GoalWasAchieved"
    /\ pools[lastCall.poolId].goalAchieved
    /\ pools[lastCall.poolId].contributions[lastCall.sender] > 0
    /\ now >= pools[lastCall.poolId].deadlineTimestamp

\* ------------------------------------------------------------------------ C4
\* claimRefund(p) by c has succeeded: c has been paid back and the transfer that
\* paid it has returned.
Refunded(p, c) ==
    /\ totalRefunded[p][c] > 0
    /\ ~\E i \in 1..Len(stack) :
            stack[i].op = "claimRefund" /\ stack[i].poolId = p /\ stack[i].sender = c

\* C4 as claimed: after a successful claimRefund(p) by c, every later
\* claimRefund(p) by c rejects with NoContribution and pays nothing.
C4_Original ==
    [][\A c \in Users, p \in PoolIds :
        (Called("claimRefund", c, p) /\ Refunded(p, c))
        => (lastCall'.result = "NoContribution" /\ balance' = balance)]_vars

\* C4 as amended: after a successful claimRefund(p) by c, every later
\* claimRefund(p) by c is rejected, pays nothing and changes no state, whatever
\* happens in between; the rejection is NoContribution when the call is not
\* nested in another operation's outbound transfer, and the reentrancy guard's
\* when it is.
C4_SecondRefundRejected ==
    [][\A c \in Users, p \in PoolIds :
        (Called("claimRefund", c, p) /\ Refunded(p, c))
        => /\ storage' = storage
           /\ lastCall'.result =
                IF nested THEN "ReentrantCall" ELSE "NoContribution"]_vars

\* A contributor already paid back has asked again and been refused with
\* NoContribution.
C4_Witness ==
    /\ lastCall.op = "claimRefund"
    /\ lastCall.result = "NoContribution"
    /\ Refunded(lastCall.poolId, lastCall.sender)
    /\ balance[Escrow] > 0

\* ------------------------------------------------------------------------ C5
\* disburseFunds(p) has succeeded: the flag is set and the transfer has returned.
Disbursed(p) == pools[p].fundsDisbursed /\ ~Transferring("disburseFunds", p)

Authorized(s, p) == s = pools[p].initiator \/ s = owner

\* C5 as claimed: after a successful disburseFunds(p), every later
\* disburseFunds(p) by the initiator or the owner rejects with AlreadyDisbursed
\* and transfers nothing.
C5_Original ==
    [][\A s \in Users, p \in PoolIds :
        (Called("disburseFunds", s, p) /\ Disbursed(p) /\ Authorized(s, p))
        => (lastCall'.result = "AlreadyDisbursed" /\ balance' = balance)]_vars

\* C5 as amended: after a successful disburseFunds(p), every later
\* disburseFunds(p) by the initiator or the owner is rejected, transfers nothing
\* and changes no state, whatever happens in between; the rejection is
\* AlreadyDisbursed when the call is not nested in another operation's outbound
\* transfer, and the reentrancy guard's when it is.
C5_SecondDisbursementRejected ==
    [][\A s \in Users, p \in PoolIds :
        (Called("disburseFunds", s, p) /\ Disbursed(p) /\ Authorized(s, p))
        => /\ storage' = storage
           /\ lastCall'.result =
                IF nested THEN "ReentrantCall" ELSE "AlreadyDisbursed"]_vars

\* The initiator or owner of a disbursed pool has asked again, while the escrow
\* still holds funds of another pool, and been refused with AlreadyDisbursed.
C5_Witness ==
    /\ lastCall.op = "disburseFunds"
    /\ lastCall.result = "AlreadyDisbursed"
    /\ Disbursed(lastCall.poolId)
    /\ Authorized(lastCall.sender, lastCall.poolId)
    /\ balance[Escrow] > 0

\* ------------------------------------------------------------------------ C6
\* Only disburseFunds(p) by the initiator or the owner sets fundsDisbursed of p
\* or sends value on p's behalf to its beneficiary (and only its own revert
\* takes that back).
C6_OnlyAuthorizedDisburse ==
    \A p \in PoolIds :
        (\/ pools'[p].fundsDisbursed # pools[p].fundsDisbursed
         \/ totalDisbursed'[p] # totalDisbursed[p])
        => /\ lastCall'.op = "disburseFunds"
           /\ lastCall'.poolId = p
           /\ Authorized(lastCall'.sender, p)

\* C6 as claimed: disburseFunds(p) by an address that is neither the initiator
\* of p nor the owner rejects with Unauthorized and changes no state; hence only
\* calls by the initiator or the owner set fundsDisbursed or move p's funds.
C6_Original ==
    [][/\ \A s \in Users, p \in PoolIds :
            (Called("disburseFunds", s, p) /\ Exists(p) /\ ~Authorized(s, p))
            => (lastCall'.result = "Unauthorized" /\ storage' = storage)
       /\ C6_OnlyAuthorizedDisburse]_vars

\* C6 as amended: disburseFunds(p) by an address that is neither the initiator
\* of p nor the owner is rejected and changes no state: with Unauthorized when
\* the call is not nested in an operation's outbound transfer, by the reentrancy
\* guard when it is; hence only calls by the initiator or the owner set
\* fundsDisbursed or move p's funds.
C6_UnauthorizedRejected ==
    [][/\ \A s \in Users, p \in PoolIds :
            (Called("disburseFunds", s, p) /\ Exists(p) /\ ~Authorized(s, p))
            => /\ storage' = storage
               /\ lastCall'.result =
                    IF nested THEN "ReentrantCall" ELSE "Unauthorized"
       /\ C6_OnlyAuthorizedDisburse]_vars

\* A third party has called disburseFunds on a pool that was ready to be
\* disbursed and been refused with Unauthorized.
C6_Witness ==
    /\ lastCall.op = "disburseFunds"
    /\ lastCall.result = "Unauthorized"
    /\ Exists(lastCall.poolId)
    /\ ~Authorized(lastCall.sender, lastCall.poolId)
    /\ pools[lastCall.poolId].goalAchieved
    /\ ~pools[lastCall.poolId].fundsDisbursed
    /\ now >= pools[lastCall.poolId].deadlineTimestamp

\* ------------------------------------------------------------------------ C7
\* C7: a successful disburseFunds(p), whoever the authorized caller is, sets
\* fundsDisbursed(p) and changes nothing else of the pool, raises the
\* beneficiary's balance by exactly currentAmount(p), lowers the escrow's by the
\* same amount and leaves every other balance as it was when the call was made
\* (a caller who is not the beneficiary receives nothing).
C7_DisburseEffect ==
    [][\A s \in Users, p \in PoolIds :
        Ended("disburseFunds", s, p, "ok")
        => LET pre == Before
               b == pre.pools[p].beneficiary
               amount == pre.pools[p].currentAmount
           IN  /\ Authorized(s, p)
               /\ amount > 0
               /\ ~pre.pools[p].fundsDisbursed
               /\ pools'[p] = [pre.pools[p] EXCEPT !.fundsDisbursed = TRUE]
               /\ balance' = [pre.balance EXCEPT ![Escrow] = @ - amount,
                                                 ![b] = @ + amount]]_vars

\* The owner, who is neither initiator nor beneficiary, has disbursed a pool
\* that had collected more than its goal.
C7_Witness ==
    /\ lastCall.op = "disburseFunds"
    /\ lastCall.result = "ok"
    /\ lastCall.sender = owner
    /\ lastCall.sender # pools[lastCall.poolId].initiator
    /\ lastCall.sender # pools[lastCall.poolId].beneficiary
    /\ pools[lastCall.poolId].fundsDisbursed
    /\ pools[lastCall.poolId].currentAmount > pools[lastCall.poolId].goalAmount

\* ------------------------------------------------------------------------ C8
\* C8: a successful claimRefund(p) by c pays c exactly the value its ledger
\* entry had when the call was made, sets that entry to zero and leaves
\* currentAmount(p), contributors(p), both flags and every other ledger entry
\* of p unchanged.
C8_RefundEffect ==
    [][\A c \in Users, p \in PoolIds :
        Ended("claimRefund", c, p, "ok")
        => LET pre == Before
               amount == pre.pools[p].contributions[c]
           IN  /\ amount > 0
               /\ pools'[p] = [pre.pools[p] EXCEPT !.contributions[c] = 0]
               /\ pools'[p].currentAmount = pre.pools[p].currentAmount
               /\ balance' = [pre.balance EXCEPT ![Escrow] = @ - amount,
                                                 ![c] = @ + amount]]_vars

\* One of two contributors of a failed pool has been paid back; the other's
\* entry is still recorded.
C8_Witness ==
    /\ lastCall.op = "claimRefund"
    /\ lastCall.result = "ok"
    /\ pools[lastCall.poolId].contributions[lastCall.sender] = 0
    /\ totalRefunded[lastCall.poolId][lastCall.sender] > 0
    /\ \E d \in Users : pools[lastCall.poolId].contributions[d] > 0

\* ------------------------------------------------------------------------ C9
\* C9: if the outbound transfer of disburseFunds(p) fails, fundsDisbursed(p) is
\* false after the call and the storage and every balance are as they were when
\* the call was made; if the outbound transfer of claimRefund(p) fails, the
\* caller's ledger entry holds the value it had when the call was made; in both
\* cases the checks of the same call pass again afterwards.
C9_FailedTransferRollsBack ==
    [][\A s \in Users, p \in PoolIds :
        /\ Ended("disburseFunds", s, p, "TransferFailed")
           => /\ storage' = Before
              /\ ~pools'[p].fundsDisbursed
              /\ totalDisbursed'[p] = 0
              /\ (disburseFundsRevert(s, p) = "ok")'
        /\ Ended("claimRefund", s, p, "TransferFailed")
           => /\ storage' = Before
              /\ pools'[p].contributions[s] > 0
              /\ pools'[p].contributions[s] = totalContributed'[p][s]
              /\ (claimRefundRevert(s, p) = "ok")']_vars

\* A beneficiary with code has refused the value of a disbursement.
C9_Witness ==
    /\ lastCall.op = "disburseFunds"
    /\ lastCall.result = "TransferFailed"
    /\ pools[lastCall.poolId].beneficiary \in Contracts
    /\ ~pools[lastCall.poolId].fundsDisbursed
    /\ balance[Escrow] >= pools[lastCall.poolId].currentAmount

\* ----------------------------------------------------------------------- C10
\* C10: for a pool whose goalAchieved is true, every contribute call and every
\* claimRefund call on it is rejected, and in every step its goalAchieved,
\* currentAmount and ledger entries stay as they are.
C10_FrozenOnceAchieved ==
    [][\A p \in PoolIds :
        pools[p].goalAchieved
        => /\ \A s \in Users :
                /\ Called("contribute", s, p)
                   => (lastCall'.result \in Rejections /\ storage' = storage)
                /\ Called("claimRefund", s, p)
                   => (lastCall'.result \in Rejections /\ storage' = storage)
           /\ pools'[p].goalAchieved
           /\ pools'[p].currentAmount = pools[p].currentAmount
           /\ pools'[p].contributions = pools[p].contributions]_vars

\* A contribution to an achieved pool, made before its deadline with a positive
\* value, has been rejected.
C10_Witness ==
    /\ lastCall.op = "contribute"
    /\ lastCall.result = "GoalAlreadyAchieved"
    /\ pools[lastCall.poolId].goalAchieved
    /\ now < pools[lastCall.poolId].deadlineTimestamp
    /\ balance[lastCall.sender] > 0

\* ----------------------------------------------------------------------- C11
\* C11: in every reachable state, for every pool, fundsDisbursed implies
\* goalAchieved and implies that the current time is at or past the pool's
\* deadlineTimestamp.
C11_DisbursedImpliesAchievedAndDue ==
    \A p \in PoolIds :
        pools[p].fundsDisbursed
        => (pools[p].goalAchieved /\ now >= pools[p].deadlineTimestamp)

\* A pool has been disbursed.
C11_Witness ==
    \E p \in PoolIds :
        /\ Disbursed(p)
        /\ pools[p].goalAchieved
        /\ totalDisbursed[p] > 0

\* ----------------------------------------------------------------------- C12
\* C12: a disburseFunds or claimRefund made strictly before the pool's deadline
\* has been rejected, one made at the deadline has not been rejected for the
\* deadline, and before a pool's deadline nothing has been sent on its behalf to
\* its beneficiary or back to a contributor.
C12_NothingLeavesBeforeDeadline ==
    /\ lastCall.op \in {"disburseFunds", "claimRefund"}
        => /\ now < pools[lastCall.poolId].deadlineTimestamp
              => lastCall.result \in Rejections
           /\ now = pools[lastCall.poolId].deadlineTimestamp
              => lastCall.result # "DeadlineNotReached"
    /\ \A p \in PoolIds :
        now < pools[p].deadlineTimestamp
        => /\ totalDisbursed[p] = 0
           /\ \A c \in Users : totalRefunded[p][c] = 0

\* A refund has been paid at the very time of the deadline.
C12_Witness ==
    /\ lastCall.op = "claimRefund"
    /\ lastCall.result = "ok"
    /\ Exists(lastCall.poolId)
    /\ now = pools[lastCall.poolId].deadlineTimestamp
    /\ totalRefunded[lastCall.poolId][lastCall.sender] > 0

\* ----------------------------------------------------------------------- C13
RECURSIVE Sum(_, _)
\* The sum of f over the set S.
Sum(f, S) ==
    IF S = {} THEN 0
    ELSE LET x == CHOOSE y \in S : TRUE IN f[x] + Sum(f, S \ {x})

\* C13: in every reachable state the currentAmount of every pool is the sum of
\* the values of the accepted contribute calls for it, and a step changes it
\* only when it is an accepted contribute call on that pool, by the value
\* attached; rejected contributions, refunds and disbursements leave it alone.
C13_CurrentAmountIsSumOfContributions ==
    [][\A p \in PoolIds :
        /\ pools[p].currentAmount = Sum(totalContributed[p], Users)
        /\ pools'[p].currentAmount = Sum(totalContributed'[p], Users)
        /\ pools'[p].currentAmount # pools[p].currentAmount
           => /\ lastCall'.op = "contribute"
              /\ lastCall'.poolId = p
              /\ lastCall'.result = "ok"
              /\ pools'[p].currentAmount - pools[p].currentAmount
                    = balance'[Escrow] - balance[Escrow]
              /\ balance'[Escrow] > balance[Escrow]]_vars

\* A pool holds the contributions of two accounts, one of which has been paid
\* back since.
C13_Witness ==
    \E p \in PoolIds, c, d \in Users :
        /\ c # d
        /\ totalContributed[p][c] > 0
        /\ totalContributed[p][d] > 0
        /\ totalRefunded[p][c] > 0
        /\ pools[p].currentAmount = totalContributed[p][c] + totalContributed[p][d]

\* ----------------------------------------------------------------------- C14
\* C14: in every reachable state, and so after every accepted contribute call,
\* goalAchieved of a pool is true exactly when its currentAmount is at least its
\* goalAmount.
C14_AchievedIffGoalMet ==
    \A p \in PoolIds :
        Exists(p)
        => (pools[p].goalAchieved
              <=> pools[p].currentAmount >= pools[p].goalAmount)

\* Contributions have accumulated to exactly the goal, and the call that
\* completed it has set goalAchieved.
C14_Witness ==
    /\ lastCall.op = "contribute"
    /\ lastCall.result = "ok"
    /\ pools[lastCall.poolId].currentAmount = pools[lastCall.poolId].goalAmount
    /\ pools[lastCall.poolId].goalAchieved
    /\ Len(pools[lastCall.poolId].contributors) = 2

\* ----------------------------------------------------------------------- C15
\* C15: goalAchieved, once true, stays true; fundsDisbursed, once a disbursement
\* has succeeded, stays true, and the only step that takes back a flag is the
\* revert of the very disburseFunds call that had set it before its transfer.
\* GoalAchieved is emitted only by the contribute call that sets goalAchieved,
\* FundsDisbursed only by the disburseFunds call that sets fundsDisbursed, and
\* so each at most once for a pool.
C15_FlagsAndEventsOnce ==
    [][\A p \in PoolIds :
        /\ pools[p].goalAchieved => pools'[p].goalAchieved
        /\ Disbursed(p) => Disbursed(p)'
        /\ (pools[p].fundsDisbursed /\ ~pools'[p].fundsDisbursed)
           => /\ TransferReturned
              /\ Head(stack).op = "disburseFunds"
              /\ Head(stack).poolId = p
              /\ lastCall'.result = "TransferFailed"
        /\ emitted'[p].GoalAchieved # emitted[p].GoalAchieved
           => /\ lastCall'.op = "contribute"
              /\ lastCall'.poolId = p
              /\ lastCall'.result = "ok"
              /\ ~pools[p].goalAchieved
              /\ pools'[p].goalAchieved
              /\ emitted'[p].GoalAchieved = emitted[p].GoalAchieved + 1
        /\ emitted'[p].FundsDisbursed # emitted[p].FundsDisbursed
           => /\ lastCall'.op = "disburseFunds"
              /\ lastCall'.poolId = p
              /\ lastCall'.result = "ok"
              /\ ~Before.pools[p].fundsDisbursed
              /\ pools'[p].fundsDisbursed
              /\ emitted'[p].FundsDisbursed = emitted[p].FundsDisbursed + 1
        /\ emitted'[p].GoalAchieved <= 1
        /\ emitted'[p].FundsDisbursed <= 1]_vars

\* A pool has reached its goal and been disbursed, each event emitted, and a
\* later disburseFunds on it has been turned away.
C15_Witness ==
    /\ lastCall.op = "disburseFunds"
    /\ lastCall.result = "AlreadyDisbursed"
    /\ pools[lastCall.poolId].goalAchieved
    /\ Disbursed(lastCall.poolId)
    /\ emitted[lastCall.poolId].GoalAchieved = 1
    /\ emitted[lastCall.poolId].FundsDisbursed = 1

\* ----------------------------------------------------------------------- C16
\* The elements of a sequence.
Range(seq) == {seq[i] : i \in 1..Len(seq)}

NoDuplicates(seq) == \A i, j \in 1..Len(seq) : seq[i] = seq[j] => i = j

\* C16: in every reachable state contributors(p) holds, each once, exactly the
\* addresses that have made an accepted contribution to p; a step changes the
\* list only by appending, at its end, the sender of an accepted contribute on p
\* that had made no accepted contribution to p before, so the list is in order
\* of first accepted contribution, whatever contributions and refunds follow.
C16_ContributorsDistinctInOrder ==
    [][\A p \in PoolIds :
        LET list == pools[p].contributors
            list2 == pools'[p].contributors
        IN  /\ NoDuplicates(list) /\ NoDuplicates(list2)
            /\ Range(list) = {c \in Users : totalContributed[p][c] > 0}
            /\ Range(list2) = {c \in Users : totalContributed'[p][c] > 0}
            /\ Len(list2) >= Len(list)
            /\ SubSeq(list2, 1, Len(list)) = list
            /\ list2 # list
               => /\ lastCall'.op = "contribute"
                  /\ lastCall'.poolId = p
                  /\ lastCall'.result = "ok"
                  /\ totalContributed[p][lastCall'.sender] = 0
                  /\ list2 = Append(list, lastCall'.sender)]_vars

\* The first of two contributors has contributed again after the second and is
\* still listed once, in first place.
C16_Witness ==
    /\ lastCall.op = "contribute"
    /\ lastCall.result = "ok"
    /\ Len(pools[lastCall.poolId].contributors) = 2
    /\ pools[lastCall.poolId].contributors[1] = lastCall.sender
    /\ totalContributed[lastCall.poolId][lastCall.sender] = 2
    /\ pools[lastCall.poolId].currentAmount = 3

\* ----------------------------------------------------------------------- C17
\* The pools created so far.  A createPool undone by the revert of the call it
\* was nested in has created none.
Created == {p \in PoolIds : Exists(p)}

\* C17: the id a successful createPool returns is 1 plus the number of pools
\* created before it; the ids in use are 1, 2, ... without a gap, and a rejected
\* createPool leaves the counter and the set of pools as they are.
C17_IdsGapFree ==
    [][/\ Created = 1..(_poolIdCounter - 1)
       /\ (lastCall = NoCall /\ lastCall'.op = "createPool")
          => IF lastCall'.result = "ok"
             THEN /\ lastCall'.poolId = 1 + Cardinality(Created)
                  /\ lastCall'.poolId >= 1
                  /\ \A q \in Created : q < lastCall'.poolId
                  /\ Created' = Created \cup {lastCall'.poolId}
                  /\ _poolIdCounter' = _poolIdCounter + 1
             ELSE /\ Created' = Created
                  /\ _poolIdCounter' = _poolIdCounter]_vars

\* The second successful createPool, made at a later time than the first, has
\* returned id 2.
C17_Witness ==
    /\ lastCall.op = "createPool"
    /\ lastCall.result = "ok"
    /\ lastCall.poolId = 2
    /\ Created = {1, 2}
    /\ now > 0

\* ----------------------------------------------------------------------- C18
\* C18: right after a successful createPool(beneficiary, description,
\* goalAmount, deadline) by caller a, the pool under the returned id has
\* initiator a, the beneficiary, description, goalAmount and deadlineTimestamp
\* given, currentAmount 0, both flags false, no contributors and a zero ledger
\* entry for every address.
C18_NewPoolState ==
    [][(lastCall = NoCall /\ lastCall'.op = "createPool"
            /\ lastCall'.result = "ok")
       => \A a \in Users, b \in Beneficiaries, d \in Descriptions,
             g \in GoalAmounts, t \in 0..MaxTime :
        createPool(a, b, d, g, t)
        => LET new == pools'[lastCall'.poolId]
           IN  /\ lastCall'.sender = a
               /\ new.initiator = a
               /\ new.beneficiary = b
               /\ new.description = d
               /\ new.goalAmount = g
               /\ new.deadlineTimestamp = t
               /\ new.currentAmount = 0
               /\ ~new.goalAchieved
               /\ ~new.fundsDisbursed
               /\ new.contributors = <<>>
               /\ \A c \in Users : new.contributions[c] = 0]_vars

\* A pool has just been created by one account for another, while an earlier
\* pool holds contributions.
C18_Witness ==
    /\ lastCall.op = "createPool"
    /\ lastCall.result = "ok"
    /\ pools[lastCall.poolId].initiator = lastCall.sender
    /\ pools[lastCall.poolId].beneficiary # lastCall.sender
    /\ pools[lastCall.poolId].currentAmount = 0
    /\ \E q \in PoolIds : pools[q].currentAmount > 0

\* ----------------------------------------------------------------------- C19
\* The rejection createPool is claimed to answer with, "ok" when none applies.
createPoolExpected(b, g, t) ==
    IF b = ZeroAddress THEN "InvalidBeneficiary"
    ELSE IF g = 0 THEN "InvalidGoalAmount"
    ELSE IF t <= now THEN "InvalidDeadline"
    ELSE "ok"

\* C19: createPool is rejected exactly when the beneficiary is the zero address
\* (InvalidBeneficiary), goalAmount is 0 (InvalidGoalAmount) or the deadline is
\* at or before the current time (InvalidDeadline); a rejected createPool
\* creates no pool and changes neither the counter nor any pool.
C19_CreatePoolRejections ==
    [][(lastCall = NoCall /\ lastCall'.op = "createPool")
       => \A b \in Beneficiaries, d \in Descriptions, g \in GoalAmounts,
             t \in 0..MaxTime :
        createPool(lastCall'.sender, b, d, g, t)
        => /\ lastCall'.result = createPoolExpected(b, g, t)
           /\ lastCall'.result # "ok"
              => /\ pools' = pools
                 /\ _poolIdCounter' = _poolIdCounter
                 /\ storage' = storage]_vars

\* With one pool open, a createPool has been rejected for its deadline.
C19_Witness ==
    /\ lastCall.op = "createPool"
    /\ lastCall.result = "InvalidDeadline"
    /\ _poolIdCounter = 2
    /\ Exists(1)
    /\ ~Exists(2)

\* ----------------------------------------------------------------------- C20
\* The answer contribute is claimed to give, "ok" when it is accepted.
contributeExpected(p, v) ==
    IF ~Exists(p) THEN "PoolNotFound"
    ELSE IF ~(now < pools[p].deadlineTimestamp) THEN "DeadlinePassed"
    ELSE IF pools[p].goalAchieved THEN "GoalAlreadyAchieved"
    ELSE IF ~(v > 0) THEN "ZeroContribution"
    ELSE "ok"

\* C20 as claimed: contribute(p) with value v is accepted if and only if p
\* exists, the time is strictly before the deadline, goalAchieved is false and
\* v > 0; otherwise it rejects with PoolNotFound, DeadlinePassed,
\* GoalAlreadyAchieved or ZeroContribution, and nothing changes.
C20_Original ==
    [][(lastCall = NoCall /\ lastCall'.op = "contribute")
       => \A v \in 0..MaxValue :
        contribute(lastCall'.sender, lastCall'.poolId, v)
        => /\ lastCall'.result = contributeExpected(lastCall'.poolId, v)
           /\ lastCall'.result # "ok" => storage' = storage]_vars

\* C20 as amended: a contribute(p) with value v that is not nested in an
\* outbound transfer of the escrow is accepted if and only if p exists, the time
\* is strictly before the deadline, goalAchieved is false and v > 0, and
\* otherwise rejects with PoolNotFound, DeadlinePassed, GoalAlreadyAchieved or
\* ZeroContribution (the first that applies); a nested one is rejected by the
\* reentrancy guard; a rejected call changes nothing.
C20_ContributeRejections ==
    [][(lastCall = NoCall /\ lastCall'.op = "contribute")
       => \A v \in 0..MaxValue :
        contribute(lastCall'.sender, lastCall'.poolId, v)
        => /\ lastCall'.result =
                IF nested THEN "ReentrantCall"
                ELSE contributeExpected(lastCall'.poolId, v)
           /\ lastCall'.result # "ok" => storage' = storage]_vars

\* A contribution with a positive value to an open pool has been rejected
\* because it came at the very time of the deadline.
C20_Witness ==
    /\ lastCall.op = "contribute"
    /\ lastCall.result = "DeadlinePassed"
    /\ ~lastCall.nested
    /\ now = pools[lastCall.poolId].deadlineTimestamp
    /\ ~pools[lastCall.poolId].goalAchieved
    /\ balance[lastCall.sender] > 0

\* ----------------------------------------------------------------------- C21
GuardedOps == {"contribute", "disburseFunds", "claimRefund"}

\* The ids in use are 1 .. (number of pools created), and the view functions
\* reject every other id with PoolNotFound.
C21_SentinelAndViews ==
    \A i \in PoolIds :
        /\ Exists(i) <=> (1 <= i /\ i <= Cardinality(Created))
        /\ Exists(i) <=> (1 <= i /\ i < _poolIdCounter)
        /\ ~Exists(i)
           => /\ getPoolDetails(i).result = "PoolNotFound"
              /\ getContributors(i).result = "PoolNotFound"
              /\ \A c \in Users : getContribution(i, c).result = "PoolNotFound"
        /\ Exists(i)
           => /\ getPoolDetails(i).result = "ok"
              /\ getContributors(i).result = "ok"
              /\ \A c \in Users : getContribution(i, c).result = "ok"

\* C21 as claimed: a pool id has a non-zero initiator exactly when it is one of
\* 1 .. (number of successful createPool calls); on every other id contribute,
\* disburseFunds, claimRefund and the three view functions reject with
\* PoolNotFound.  Read on the state right after each call: a rejected call
\* changes nothing, so the id it named is still unused.
C21_Original ==
    /\ C21_SentinelAndViews
    /\ (lastCall.op \in GuardedOps /\ ~Exists(lastCall.poolId))
       => lastCall.result = "PoolNotFound"

\* C21 as amended: as claimed, except that a contribute, disburseFunds or
\* claimRefund nested in an outbound transfer of the escrow is rejected by the
\* reentrancy guard instead.
C21_UnusedIdsRejected ==
    /\ C21_SentinelAndViews
    /\ (lastCall.op \in GuardedOps /\ ~Exists(lastCall.poolId))
       => lastCall.result =
            IF lastCall.nested THEN "ReentrantCall" ELSE "PoolNotFound"

\* With one pool created, a claimRefund naming the next id has been rejected
\* with PoolNotFound.
C21_Witness ==
    /\ lastCall.op = "claimRefund"
    /\ lastCall.result = "PoolNotFound"
    /\ lastCall.poolId = 2
    /\ Created = {1}
    /\ getPoolDetails(2).result = "PoolNotFound"
    /\ getPoolDetails(1).result = "ok"

\* ----------------------------------------------------------------------- C22
\* The fields of a pool that are given at creation.
Given(pool) == <<pool.initiator, pool.beneficiary, pool.description,
                 pool.goalAmount, pool.deadlineTimestamp>>

\* Pool p exists and its creation is not part of a call still under way, which
\* a failing transfer would undo together with it.
Committed(p) ==
    /\ Exists(p)
    /\ \A i \in 1..Len(stack) : stack[i].saved.pools[p].initiator # ZeroAddress

\* C22: in every step a pool keeps its initiator, beneficiary, description,
\* goalAmount and deadlineTimestamp, and a pool is never removed; the one step
\* after which an id is unused again is the failure of the outbound transfer in
\* which that pool had been created, which undoes the creation as a whole.
C22_GivenFieldsImmutable ==
    [][\A p \in PoolIds :
        /\ (Exists(p) /\ Exists(p)') => Given(pools'[p]) = Given(pools[p])
        /\ Committed(p) => (Exists(p)' /\ Committed(p)')
        /\ (Exists(p) /\ ~Exists(p)')
           => /\ TransferReturned
              /\ lastCall'.result = "TransferFailed"
              /\ ~Committed(p)]_vars

\* The first pool has been disbursed and a pool created after it has been
\* contributed to and refunded.
C22_Witness ==
    /\ Disbursed(1)
    /\ Committed(2)
    /\ \E c \in Users : Refunded(2, c)

\* ----------------------------------------------------------------------- C23
\* C23: a contribute, disburseFunds or claimRefund that names pool p leaves
\* every other pool as it is (as it was when the call was made, when the call
\* fails in its transfer and is undone with all that was nested in it), and a
\* createPool leaves every existing pool as it is.
C23_OtherPoolsUntouched ==
    [][lastCall = NoCall
       => /\ lastCall'.op \in GuardedOps
             => \A q \in PoolIds \ {lastCall'.poolId} :
                    pools'[q] = IF lastCall'.result = "TransferFailed"
                                THEN Before.pools[q] ELSE pools[q]
          /\ lastCall'.op = "createPool"
             => \A q \in PoolIds : Exists(q) => pools'[q] = pools[q]]_vars

\* A contribution to the second pool has been accepted while the first holds
\* contributions of its own.
C23_Witness ==
    /\ lastCall.op = "contribute"
    /\ lastCall.result = "ok"
    /\ lastCall.poolId = 2
    /\ pools[1].currentAmount > 0
    /\ pools[2].currentAmount > 0
    /\ pools[1].contributors # pools[2].contributors

\* ----------------------------------------------------------------------- C24
\* C24: the guard's flag is set exactly while the outbound transfer of a
\* guarded operation is under way; a contribute, disburseFunds or claimRefund
\* nested in it, on any pool, has been rejected by the guard; and a call that is
\* not nested has never been rejected by the guard, also after an operation that
\* failed.
C24_OneGuardForAll ==
    /\ (_status = "ENTERED") <=> nested
    /\ lastCall.op \in GuardedOps
       => (lastCall.result = "ReentrantCall" <=> lastCall.nested)
    /\ (lastCall.op \in GuardedOps /\ lastCall.result = "TransferFailed")
       => (_status = "NOT_ENTERED" /\ ~nested)

\* During the transfer of an operation on one pool, a contribute to another,
\* open pool has been rejected by the guard.
C24_Witness ==
    /\ nested
    /\ lastCall.nested
    /\ lastCall.op = "contribute"
    /\ lastCall.result = "ReentrantCall"
    /\ lastCall.poolId # Head(stack).poolId
    /\ Exists(lastCall.poolId)
    /\ now < pools[lastCall.poolId].deadlineTimestamp

\* ----------------------------------------------------------------------- C28
\* What the escrow still owes on behalf of pool p.
Owed(p) ==
    IF pools[p].fundsDisbursed THEN 0
    ELSE IF pools[p].goalAchieved THEN pools[p].currentAmount
    ELSE Sum(pools[p].contributions, Users)

\* C28: in every reachable state the escrow's balance is at least the sum over
\* all pools of what is still owed, so a disburseFunds or claimRefund whose
\* checks pass finds the value it sends in the escrow, and what is left covers
\* the other pools.
C28_Solvency ==
    /\ balance[Escrow] >= Sum([p \in PoolIds |-> Owed(p)], PoolIds)
    /\ \A s \in Users, p \in PoolIds :
        /\ disburseFundsRevert(s, p) = "ok"
           => /\ balance[Escrow] >= disburseFundsValue(pools[p])
              /\ balance[Escrow] - disburseFundsValue(pools[p])
                    >= Sum([q \in PoolIds |-> IF q = p THEN 0 ELSE Owed(q)], PoolIds)
        /\ claimRefundRevert(s, p) = "ok"
           => /\ balance[Escrow] >= pools[p].contributions[s]
              /\ balance[Escrow] - pools[p].contributions[s]
                    >= Sum([q \in PoolIds |-> IF q = p THEN 0 ELSE Owed(q)], PoolIds)

\* One pool has been disbursed while the escrow still holds the contributions
\* of another, failed pool that are due for refund.
C28_Witness ==
    \E p, q \in PoolIds, c \in Users :
        /\ Disbursed(p)
        /\ q # p
        /\ claimRefundRevert(c, q) = "ok"
        /\ balance[Escrow] = Owed(q)
        /\ Owed(q) > 0

\* ----------------------------------------------------------------------- C30
\* C30: in every reachable state, for every pool, the ledger entries sum to at
\* most currentAmount; they sum to exactly currentAmount while nothing has been
\* refunded on the pool, so at every time before the deadline and whenever
\* goalAchieved is true; and every address with a non-zero entry is listed in
\* contributors.
C30_LedgerWithinCurrentAmount ==
    \A p \in PoolIds :
        LET ledger == Sum(pools[p].contributions, Users)
        IN  /\ ledger <= pools[p].currentAmount
            /\ Sum(totalRefunded[p], Users) = 0 => ledger = pools[p].currentAmount
            /\ now < pools[p].deadlineTimestamp => ledger = pools[p].currentAmount
            /\ pools[p].goalAchieved => ledger = pools[p].currentAmount
            /\ ledger + Sum(totalRefunded[p], Users) = pools[p].currentAmount
            /\ \A c \in Users :
                pools[p].contributions[c] > 0 => c \in Range(pools[p].contributors)

\* One of two contributors of a failed pool has been refunded: the ledger sums
\* to less than currentAmount and the other is still listed with its entry.
C30_Witness ==
    \E p \in PoolIds, c, d \in Users :
        /\ Refunded(p, c)
        /\ pools[p].contributions[c] = 0
        /\ pools[p].contributions[d] > 0
        /\ Sum(pools[p].contributions, Users) < pools[p].currentAmount
        /\ Len(pools[p].contributors) = 2

\* ----------------------------------------------------------------------- C29
\* Outside an outbound transfer, once the deadline of a pool has passed: if its
\* goal was achieved and it is not disbursed, the initiator's disburseFunds
\* passes its checks and finds the value in the escrow; if not, the claimRefund
\* of every contributor with a non-zero ledger entry does.
ResolutionEnabled ==
    \A p \in PoolIds :
        (Exists(p) /\ ~nested /\ now >= pools[p].deadlineTimestamp)
        => /\ (pools[p].goalAchieved /\ ~pools[p].fundsDisbursed)
              => /\ disburseFundsRevert(pools[p].initiator, p) = "ok"
                 /\ callValue(pools[p].beneficiary, pools[p].currentAmount)
                        # "failed"
           /\ ~pools[p].goalAchieved
              => \A c \in Users :
                    pools[p].contributions[c] > 0
                    => /\ claimRefundRevert(c, p) = "ok"
                       /\ callValue(c, pools[p].contributions[c]) # "failed"

\* C29: once the deadline of a pool has passed, the call that resolves it stays
\* possible until made (disburseFunds by the initiator if the goal was
\* achieved, claimRefund by each contributor still in the ledger if not), and
\* with callers that keep trying and recipients that accept value, what the
\* escrow holds for the pool eventually becomes zero.
C29_NoFundsLocked ==
    /\ []ResolutionEnabled
    /\ \A p \in 1..MaxPools :
        (Exists(p) /\ now >= pools[p].deadlineTimestamp) ~> (Owed(p) = 0)

\* Both contributors of a failed pool have been paid back and the escrow holds
\* nothing for it any more.
C29_Witness ==
    \E p \in PoolIds :
        /\ ~nested
        /\ Len(pools[p].contributors) = 2
        /\ ~pools[p].goalAchieved
        /\ \A c \in Users : pools[p].contributions[c] = 0
        /\ Owed(p) = 0

\* ----------------------------------------------------------------------- C25
Pairs == Bytecodes \X Salts

\* What a state right after a call of the deployer shows: a successful deploy
\* returned the address computeAddress gives for its arguments; computeAddress
\* answers, for a pair deployed earlier, the address that deploy returned; and
\* an address computeAddress gives holds code only if a deploy of its pair has
\* succeeded on that chain.
C25_AfterCall ==
    /\ (lastDeploy.op = "deploy" /\ lastDeploy.result = "ok") =>
          /\ lastDeploy.address = computeAddress(lastDeploy.bytecode, lastDeploy.salt)
          /\ lastDeploy.address # NoAddress
    /\ lastDeploy.op = "computeAddress" =>
          LET was == deployedAt[lastDeploy.chain][<<lastDeploy.bytecode,
                                                   lastDeploy.salt>>]
          IN  was # NotDeployed => lastDeploy.address = was.address
    /\ \A c \in Chains, a \in Addresses \ {Factory} :
          accounts[c][a].code # "" =>
              \E k \in Pairs : /\ computeAddress(k[1], k[2]) = a
                               /\ deployedAt[c][k] # NotDeployed

\* C25: computeAddress(bytecode, salt) returns the same address before and
\* after deploy(bytecode, salt), that address is the one deploy returns,
\* computeAddress changes no state, and the address holds code only after a
\* deploy for it has succeeded.
C25_ComputeAddressMatchesDeploy ==
    [][/\ C25_AfterCall'
       /\ lastDeploy'.op = "computeAddress" =>
             /\ UNCHANGED <<accounts, deployLog, deployedAt>>
             /\ UNCHANGED escrowVars
             /\ lastDeploy'.address =
                   create2Address(Factory, lastDeploy'.salt, lastDeploy'.hash)
       /\ (lastDeploy'.op = "deploy" /\ lastDeploy'.result = "ok") =>
             \* before the deploy the address was free, and it is the address
             \* computeAddress answered then and answers now
             /\ accounts[lastDeploy'.chain][lastDeploy'.address] = EmptyAccount
             /\ deployedAt'[lastDeploy'.chain][<<lastDeploy'.bytecode,
                                                 lastDeploy'.salt>>].address
                   = computeAddress(lastDeploy'.bytecode, lastDeploy'.salt)]_vars

\* computeAddress is asked, on a chain where the pair has been deployed and its
\* code is in place, and on the other chain the pair has not been deployed.
C25_Witness ==
    /\ lastDeploy.op = "computeAddress"
    /\ lastDeploy.bytecode = "returnsCode"
    /\ deployedAt[lastDeploy.chain][<<lastDeploy.bytecode, lastDeploy.salt>>].address
          = lastDeploy.address
    /\ accounts[lastDeploy.chain][lastDeploy.address].code = "runtime"
    /\ \E c \in Chains :
          /\ deployedAt[c][<<lastDeploy.bytecode, lastDeploy.salt>>] = NotDeployed
          /\ accounts[c][lastDeploy.address] = EmptyAccount

\* ----------------------------------------------------------------------- C26
\* The pair for which deploy is called in this step, and what an earlier deploy
\* of it on that chain returned.
DeployedBefore ==
    deployedAt[lastDeploy'.chain][<<lastDeploy'.bytecode, lastDeploy'.salt>>]

\* This step is a call of deploy for a pair that deploy has succeeded for earlier
\* on the same chain.
DeployAgain ==
    /\ lastDeploy = NoDeploy
    /\ lastDeploy'.op = "deploy"
    /\ DeployedBefore # NotDeployed

\* The call fails with DeploymentFailed, logs nothing and leaves every account
\* as it is.
DeployRejected ==
    /\ lastDeploy'.result = "DeploymentFailed"
    /\ lastDeploy'.address = NoAddress
    /\ deployLog' = deployLog
    /\ accounts' = accounts
    /\ deployedAt' = deployedAt

\* C26 as stated: after deploy(bytecode, salt) has succeeded on a deployer, every
\* later deploy with the same (bytecode, salt) on that deployer fails with
\* DeploymentFailed, emits no ContractDeployed event and leaves the deployed
\* code unchanged.
C26_Original == [][DeployAgain => DeployRejected]_vars

\* C26, amended: after deploy(bytecode, salt) has succeeded on a deployer, every
\* later deploy with the same (bytecode, salt) on that deployer, made while the
\* account created at the returned address is still there, fails with
\* DeploymentFailed, emits no ContractDeployed event and leaves the deployed
\* code unchanged; and no deploy returns silently: one that does not fail has
\* created the account at a nonzero address and logged one event.
C26_RedeployFails ==
    [][/\ (DeployAgain /\ accounts[lastDeploy'.chain][DeployedBefore.address]
                             # EmptyAccount)
          => DeployRejected
       /\ (lastDeploy = NoDeploy /\ lastDeploy'.op = "deploy"
             /\ lastDeploy'.result # "DeploymentFailed")
          => /\ lastDeploy'.result = "ok"
             /\ lastDeploy'.address # NoAddress
             /\ accounts[lastDeploy'.chain][lastDeploy'.address] = EmptyAccount
             /\ deployLog'[lastDeploy'.chain] = deployLog[lastDeploy'.chain] + 1]_vars

\* A second deploy of a pair whose code is in place has just been rejected.
C26_Witness ==
    /\ lastDeploy.op = "deploy"
    /\ lastDeploy.result = "DeploymentFailed"
    /\ lastDeploy.bytecode = "returnsCode"
    /\ deployedAt[lastDeploy.chain][<<lastDeploy.bytecode, lastDeploy.salt>>]
          # NotDeployed
    /\ accounts[lastDeploy.chain][computeAddress(lastDeploy.bytecode,
                                                 lastDeploy.salt)].code = "runtime"
    /\ deployLog[lastDeploy.chain] = 1

\* ----------------------------------------------------------------------- C27
\* C27: the address deploy produces is determined only by the deployer's own
\* address, the salt and the hash of the bytecode: on two chains with the
\* deployer at the same address, whatever was deployed earlier and whoever
\* calls, the same (bytecode, salt) is deployed to the same address; and
\* computeAddressFromHash(hash(bytecode), salt) = computeAddress(bytecode, salt).
C27_AddressIsPureFunction ==
    /\ \A k \in Pairs :
          /\ \A c \in Chains :
                deployedAt[c][k] # NotDeployed =>
                    deployedAt[c][k].address =
                        create2Address(Factory, k[2], keccak256Bytecode(k[1]))
          /\ \A c1, c2 \in Chains :
                (deployedAt[c1][k] # NotDeployed /\ deployedAt[c2][k] # NotDeployed)
                    => deployedAt[c1][k].address = deployedAt[c2][k].address
          /\ computeAddressFromHash(keccak256Bytecode(k[1]), k[2])
                = computeAddress(k[1], k[2])
    /\ (lastDeploy.op = "deploy" /\ lastDeploy.result = "ok") =>
          /\ lastDeploy.address =
                computeAddressFromHash(lastDeploy.hash, lastDeploy.salt)
          /\ \A c \in Chains :
                LET there == deployedAt[c][<<lastDeploy.bytecode, lastDeploy.salt>>]
                IN  there # NotDeployed => there.address = lastDeploy.address
    /\ lastDeploy.op = "computeAddressFromHash" =>
          \A b \in Bytecodes :
             lastDeploy.hash = keccak256Bytecode(b) =>
                /\ lastDeploy.address = computeAddress(b, lastDeploy.salt)
                /\ \A c \in Chains :
                      deployedAt[c][<<b, lastDeploy.salt>>] # NotDeployed =>
                          deployedAt[c][<<b, lastDeploy.salt>>].address
                              = lastDeploy.address

\* A pair has just been deployed on one chain by one caller, as that chain's
\* first deployment; the other chain deployed another pair first and then this
\* one, by another caller; both hold the code at the same address.
C27_Witness ==
    /\ lastDeploy.op = "deploy"
    /\ lastDeploy.result = "ok"
    /\ lastDeploy.bytecode = "returnsCode"
    /\ deployLog[lastDeploy.chain] = 1
    /\ \E c \in Chains \ {lastDeploy.chain} :
          LET there == deployedAt[c][<<lastDeploy.bytecode, lastDeploy.salt>>]
          IN  /\ deployLog[c] = 2
              /\ there # NotDeployed
              /\ there.sender # lastDeploy.sender
              /\ there.address = lastDeploy.address
              /\ accounts[c][there.address].code = "runtime"
              /\ accounts[lastDeploy.chain][there.address].code = "runtime"

====
